---- MODULE Spec2Model ----
(***************************************************************************)
(* Model of src/app.py: the MyCamera frame drainer (a background thread    *)
(* that grabs frames under a lock, and snapshot() that retrieves the       *)
(* latest frame under the same lock) driven by drain_buffer().             *)
(*                                                                         *)
(* Two threads are modelled statement by statement:                        *)
(*   main : drain_buffer() -> MyCamera.__enter__ / snapshot / __exit__     *)
(*   loop : MyCamera._run                                                  *)
(* Rational numbers (fps, sleep) are pairs <<numerator, denominator>>.     *)
(***************************************************************************)
EXTENDS Integers, Sequences, FiniteSets, TLC

VARIABLES
    mainPc,          \* position of the caller thread in drain_buffer / MyCamera
    loopPc,          \* position of the my_loop thread in MyCamera._run
    lock,            \* self.lock: "free", or the thread that acquired it
    need_to_stop,    \* self.need_to_stop
    has_timestamp,   \* whether the attribute self.timestamp exists
    timestamp,       \* self.timestamp (meaningful when has_timestamp)
    frame,           \* frame held in the source's buffer (0: none grabbed)
    grabs,           \* number of grab() calls performed on the source
    camState,        \* self.cam: "closed", "open" or "released"
    camFps,          \* what the source reports for CAP_PROP_FPS
    sleep,           \* _run's local `sleep` (<<>> before it is computed)
    lastSleep,       \* argument of the latest time.sleep in _run (<<>>: none)
    ok,              \* snapshot's local `ok`
    data,            \* snapshot's local `data` (0: None)
    local_timestamp, \* snapshot's local `timestamp`
    sample,          \* drain_buffer's `sample`: <<>> or <<data, timestamp>>
    next_in_seconds, \* drain_buffer's `next_in_seconds`
    saved,           \* content of sample.jpg: <<>> or a sample
    uploaded,        \* latest uploaded content: <<>> or a sample
    exc,             \* exception in flight in the caller thread ("none")
    grab_since_snapshot, \* history: a grab happened since snapshot last released
    grabs_at_stop    \* history: value of grabs when need_to_stop was set

vars == <<mainPc, loopPc, lock, need_to_stop, has_timestamp, timestamp, frame,
          grabs, camState, camFps, sleep, lastSleep, ok, data, local_timestamp,
          sample, next_in_seconds, saved, uploaded, exc, grab_since_snapshot,
          grabs_at_stop>>

mainVars == <<mainPc, ok, data, local_timestamp, sample, next_in_seconds,
              saved, uploaded, exc>>
loopVars == <<loopPc, sleep, lastSleep>>
slotVars == <<has_timestamp, timestamp, frame, grabs, grab_since_snapshot,
              grabs_at_stop>>

\* Bound on the number of grabs the drain loop performs.
MaxGrabs == 3

\* Values the source may report as its frame rate: -1, 0, 1/2, 30.
FpsValues == { <<0 - 1, 1>>, <<0, 1>>, <<1, 2>>, <<30, 1>> }

\* Delays until the next cron fire time, in seconds.
DelayValues == { 0 - 1, 0, 1 }

\* sleep = 0.01
DefaultSleep == <<1, 100>>

\* sleep = 1 / (fps + 1), for fps = n/d
SleepIntervalNoPlusOne(fps) ==
    IF fps[1] > 0 THEN <<fps[2], fps[1]>> ELSE DefaultSleep

SleepInterval(fps) ==
    IF fps[1] > 0 THEN <<fps[2], fps[1] + fps[2]>> ELSE DefaultSleep

\* get_timestamp(): the capture time, here the index of the latest grab.
get_timestamp == grabs

Init ==
    /\ mainPc = "cam_enter"
    /\ loopPc = "idle"
    /\ lock = "free"
    /\ need_to_stop = FALSE
    /\ has_timestamp = FALSE
    /\ timestamp = 0
    /\ frame = 0
    /\ grabs = 0
    /\ camState = "closed"
    /\ camFps \in FpsValues
    /\ sleep = <<>>
    /\ lastSleep = <<>>
    /\ ok = FALSE
    /\ data = 0
    /\ local_timestamp = 0
    /\ sample = <<>>
    /\ next_in_seconds = 0
    /\ saved = <<>>
    /\ uploaded = <<>>
    /\ exc = "none"
    /\ grab_since_snapshot = FALSE
    /\ grabs_at_stop = 0

----
\* The my_loop thread: MyCamera._run

LoopSetup ==
    /\ loopPc = "fps"
    /\ sleep' = SleepInterval(camFps)
    /\ loopPc' = "check"
    /\ UNCHANGED <<lastSleep, lock, need_to_stop, camState, camFps>>
    /\ UNCHANGED <<mainVars, slotVars>>

LoopCheckBackpressure ==
    /\ loopPc = "check"
    /\ IF need_to_stop
         THEN loopPc' = "done"
         ELSE /\ grabs < MaxGrabs
              /\ ~has_timestamp \/ (sample # <<>> /\ sample[2] = timestamp)
              /\ loopPc' = "acquire"
    /\ UNCHANGED <<sleep, lastSleep, lock, need_to_stop, camState, camFps>>
    /\ UNCHANGED <<mainVars, slotVars>>

LoopCheckStaleFlag ==
    /\ loopPc = "check"
    /\ IF need_to_stop /\ grabs > grabs_at_stop + 1
         THEN loopPc' = "done"
         ELSE /\ grabs < MaxGrabs
              /\ loopPc' = "acquire"
    /\ UNCHANGED <<sleep, lastSleep, lock, need_to_stop, camState, camFps>>
    /\ UNCHANGED <<mainVars, slotVars>>

LoopCheck ==
    /\ loopPc = "check"
    /\ IF need_to_stop
         THEN loopPc' = "done"
         ELSE /\ grabs < MaxGrabs
              /\ loopPc' = "acquire"
    /\ UNCHANGED <<sleep, lastSleep, lock, need_to_stop, camState, camFps>>
    /\ UNCHANGED <<mainVars, slotVars>>

LoopAcquire ==
    /\ loopPc = "acquire"
    /\ lock = "free"
    /\ lock' = "loop"
    /\ loopPc' = "grab"
    /\ UNCHANGED <<sleep, lastSleep, need_to_stop, camState, camFps>>
    /\ UNCHANGED <<mainVars, slotVars>>

LoopGrab ==
    /\ loopPc = "grab"
    /\ grabs' = grabs + 1
    /\ frame' = grabs + 1
    /\ grab_since_snapshot' = TRUE
    /\ loopPc' = "stamp"
    /\ UNCHANGED <<has_timestamp, timestamp, grabs_at_stop>>
    /\ UNCHANGED <<sleep, lastSleep, lock, need_to_stop, camState, camFps>>
    /\ UNCHANGED mainVars

LoopStampOnce ==
    /\ loopPc = "stamp"
    /\ has_timestamp' = TRUE
    /\ timestamp' = IF has_timestamp THEN timestamp ELSE get_timestamp
    /\ loopPc' = "release"
    /\ UNCHANGED <<frame, grabs, grab_since_snapshot, grabs_at_stop>>
    /\ UNCHANGED <<sleep, lastSleep, lock, need_to_stop, camState, camFps>>
    /\ UNCHANGED mainVars

LoopStamp ==
    /\ loopPc = "stamp"
    /\ has_timestamp' = TRUE
    /\ timestamp' = get_timestamp
    /\ loopPc' = "release"
    /\ UNCHANGED <<frame, grabs, grab_since_snapshot, grabs_at_stop>>
    /\ UNCHANGED <<sleep, lastSleep, lock, need_to_stop, camState, camFps>>
    /\ UNCHANGED mainVars

LoopReleaseKeepsLock ==
    /\ loopPc = "release"
    /\ loopPc' = "sleep"
    /\ UNCHANGED <<sleep, lastSleep, lock, need_to_stop, camState, camFps>>
    /\ UNCHANGED <<mainVars, slotVars>>

LoopRelease ==
    /\ loopPc = "release"
    /\ lock' = "free"
    /\ loopPc' = "sleep"
    /\ UNCHANGED <<sleep, lastSleep, need_to_stop, camState, camFps>>
    /\ UNCHANGED <<mainVars, slotVars>>

LoopSleep ==
    /\ loopPc = "sleep"
    /\ lastSleep' = sleep
    /\ loopPc' = "check"
    /\ UNCHANGED <<sleep, lock, need_to_stop, camState, camFps>>
    /\ UNCHANGED <<mainVars, slotVars>>

LoopNext ==
    \/ LoopSetup
    \/ LoopCheck
    \/ LoopAcquire
    \/ LoopGrab
    \/ LoopStamp
    \/ LoopRelease
    \/ LoopSleep

----
\* The caller thread: drain_buffer, MyCamera.__enter__, snapshot, __exit__

CamEnterSkipped ==
    /\ mainPc = "cam_enter"
    /\ mainPc' = "start_loop"
    /\ UNCHANGED <<ok, data, local_timestamp, sample, next_in_seconds, saved,
                   uploaded, exc>>
    /\ UNCHANGED <<lock, need_to_stop, camState, camFps, loopVars, slotVars>>

\* self.cam.__enter__(): the source opens, or fails to open and raises
\* (then __enter__ raises and the with block is never entered).
CamEnter ==
    /\ mainPc = "cam_enter"
    /\ \/ /\ camState' = "open"
          /\ mainPc' = "start_loop"
          /\ exc' = exc
       \/ /\ camState' = camState
          /\ mainPc' = "done"
          /\ exc' = "OpenError"
    /\ UNCHANGED <<ok, data, local_timestamp, sample, next_in_seconds, saved,
                   uploaded>>
    /\ UNCHANGED <<lock, need_to_stop, camFps, loopVars, slotVars>>

\* self.my_loop.start()
StartLoop ==
    /\ mainPc = "start_loop"
    /\ loopPc' = "fps"
    /\ mainPc' = "schedule"
    /\ UNCHANGED <<ok, data, local_timestamp, sample, next_in_seconds, saved,
                   uploaded, exc>>
    /\ UNCHANGED <<sleep, lastSleep, lock, need_to_stop, camState, camFps,
                   slotVars>>

\* n = cron.get_next(...); next_in_seconds = (n - now).total_seconds()
Schedule ==
    /\ mainPc = "schedule"
    /\ \E d \in DelayValues :
          /\ next_in_seconds' = d
          /\ mainPc' = IF d > 0 THEN "wait" ELSE "snap_acquire"
    /\ UNCHANGED <<ok, data, local_timestamp, sample, saved, uploaded, exc>>
    /\ UNCHANGED <<lock, need_to_stop, camState, camFps, loopVars, slotVars>>

\* time.sleep(next_in_seconds)
Wait ==
    /\ mainPc = "wait"
    /\ mainPc' = "snap_acquire"
    /\ UNCHANGED <<ok, data, local_timestamp, sample, next_in_seconds, saved,
                   uploaded, exc>>
    /\ UNCHANGED <<lock, need_to_stop, camState, camFps, loopVars, slotVars>>

SnapAcquireNoLock ==
    /\ mainPc = "snap_acquire"
    /\ mainPc' = "retrieve"
    /\ UNCHANGED <<ok, data, local_timestamp, sample, next_in_seconds, saved,
                   uploaded, exc>>
    /\ UNCHANGED <<lock, need_to_stop, camState, camFps, loopVars, slotVars>>

\* self.lock.acquire()
SnapAcquire ==
    /\ mainPc = "snap_acquire"
    /\ lock = "free"
    /\ lock' = "main"
    /\ mainPc' = "retrieve"
    /\ UNCHANGED <<ok, data, local_timestamp, sample, next_in_seconds, saved,
                   uploaded, exc>>
    /\ UNCHANGED <<need_to_stop, camState, camFps, loopVars, slotVars>>

\* ok, data = self.cam.capture.capture.retrieve(): decodes the buffered
\* frame, or reports failure with no data.
SnapRetrieve ==
    /\ mainPc = "retrieve"
    /\ \E o \in BOOLEAN :
          /\ ok' = o
          /\ data' = IF o THEN frame ELSE 0
    /\ mainPc' = "read_timestamp"
    /\ UNCHANGED <<local_timestamp, sample, next_in_seconds, saved, uploaded,
                   exc>>
    /\ UNCHANGED <<lock, need_to_stop, camState, camFps, loopVars, slotVars>>

SnapReadTimestampNoRaise ==
    /\ mainPc = "read_timestamp"
    /\ local_timestamp' = timestamp
    /\ mainPc' = "snap_release"
    /\ exc' = exc
    /\ UNCHANGED <<ok, data, sample, next_in_seconds, saved, uploaded>>
    /\ UNCHANGED <<lock, need_to_stop, camState, camFps, loopVars, slotVars>>

SnapReadTimestampConsume ==
    /\ mainPc = "read_timestamp"
    /\ IF has_timestamp
         THEN /\ local_timestamp' = timestamp
              /\ mainPc' = "snap_release"
              /\ exc' = exc
         ELSE /\ local_timestamp' = local_timestamp
              /\ mainPc' = "exit_stop"
              /\ exc' = "AttributeError"
    /\ timestamp' = 0
    /\ UNCHANGED <<has_timestamp, frame, grabs, grab_since_snapshot,
                   grabs_at_stop>>
    /\ UNCHANGED <<ok, data, sample, next_in_seconds, saved, uploaded>>
    /\ UNCHANGED <<lock, need_to_stop, camState, camFps, loopVars>>

\* timestamp = self.timestamp: raises AttributeError while the attribute
\* does not exist; the exception leaves snapshot() and the with block, so
\* the next statement run is MyCamera.__exit__ (lock.release() is skipped).
SnapReadTimestamp ==
    /\ mainPc = "read_timestamp"
    /\ IF has_timestamp
         THEN /\ local_timestamp' = timestamp
              /\ mainPc' = "snap_release"
              /\ exc' = exc
         ELSE /\ local_timestamp' = local_timestamp
              /\ mainPc' = "exit_stop"
              /\ exc' = "AttributeError"
    /\ UNCHANGED <<ok, data, sample, next_in_seconds, saved, uploaded>>
    /\ UNCHANGED <<lock, need_to_stop, camState, camFps, loopVars, slotVars>>

\* self.lock.release()
SnapRelease ==
    /\ mainPc = "snap_release"
    /\ lock' = "free"
    /\ grab_since_snapshot' = FALSE
    /\ mainPc' = "snap_return"
    /\ UNCHANGED <<has_timestamp, timestamp, frame, grabs, grabs_at_stop>>
    /\ UNCHANGED <<ok, data, local_timestamp, sample, next_in_seconds, saved,
                   uploaded, exc>>
    /\ UNCHANGED <<need_to_stop, camState, camFps, loopVars>>

SnapReturnAlways ==
    /\ mainPc = "snap_return"
    /\ sample' = <<data, local_timestamp>>
    /\ mainPc' = "save"
    /\ exc' = exc
    /\ UNCHANGED <<ok, data, local_timestamp, next_in_seconds, saved, uploaded>>
    /\ UNCHANGED <<lock, need_to_stop, camState, camFps, loopVars, slotVars>>

\* if not ok: raise RuntimeError(...)
\* return ImageSample(data=data, timestamp=timestamp, format=RGB)
SnapReturn ==
    /\ mainPc = "snap_return"
    /\ IF ok
         THEN /\ sample' = <<data, local_timestamp>>
              /\ mainPc' = "save"
              /\ exc' = exc
         ELSE /\ sample' = sample
              /\ mainPc' = "exit_stop"
              /\ exc' = "RuntimeError"
    /\ UNCHANGED <<ok, data, local_timestamp, next_in_seconds, saved, uploaded>>
    /\ UNCHANGED <<lock, need_to_stop, camState, camFps, loopVars, slotVars>>

\* sample.save("sample.jpg"): writes the file, or raises
Save ==
    /\ mainPc = "save"
    /\ \/ /\ saved' = sample
          /\ mainPc' = "upload"
          /\ exc' = exc
       \/ /\ saved' = saved
          /\ mainPc' = "exit_stop"
          /\ exc' = "SaveError"
    /\ UNCHANGED <<ok, data, local_timestamp, sample, next_in_seconds, uploaded>>
    /\ UNCHANGED <<lock, need_to_stop, camState, camFps, loopVars, slotVars>>

\* plugin.upload_file("sample.jpg"): publishes the file, or raises
Upload ==
    /\ mainPc = "upload"
    /\ \/ /\ uploaded' = saved
          /\ mainPc' = "schedule"
          /\ exc' = exc
       \/ /\ uploaded' = uploaded
          /\ mainPc' = "exit_stop"
          /\ exc' = "UploadError"
    /\ UNCHANGED <<ok, data, local_timestamp, sample, next_in_seconds, saved>>
    /\ UNCHANGED <<lock, need_to_stop, camState, camFps, loopVars, slotVars>>

\* __exit__: self.need_to_stop = True
ExitStop ==
    /\ mainPc = "exit_stop"
    /\ need_to_stop' = TRUE
    /\ grabs_at_stop' = grabs
    /\ mainPc' = "join"
    /\ UNCHANGED <<ok, data, local_timestamp, sample, next_in_seconds, saved,
                   uploaded, exc>>
    /\ UNCHANGED <<has_timestamp, timestamp, frame, grabs, grab_since_snapshot>>
    /\ UNCHANGED <<lock, camState, camFps, loopVars>>

ExitJoinNoWait ==
    /\ mainPc = "join"
    /\ mainPc' = "cam_exit"
    /\ UNCHANGED <<ok, data, local_timestamp, sample, next_in_seconds, saved,
                   uploaded, exc>>
    /\ UNCHANGED <<lock, need_to_stop, camState, camFps, loopVars, slotVars>>

\* __exit__: self.my_loop.join() returns once _run has returned
ExitJoin ==
    /\ mainPc = "join"
    /\ loopPc = "done"
    /\ mainPc' = "cam_exit"
    /\ UNCHANGED <<ok, data, local_timestamp, sample, next_in_seconds, saved,
                   uploaded, exc>>
    /\ UNCHANGED <<lock, need_to_stop, camState, camFps, loopVars, slotVars>>

\* __exit__: self.cam.__exit__(...) releases the source; an error of the
\* teardown replaces the exception in flight. __exit__ returns None, so
\* the exception in flight leaves drain_buffer.
CamExit ==
    /\ mainPc = "cam_exit"
    /\ camState' = "released"
    /\ mainPc' = "done"
    /\ \/ exc' = exc
       \/ exc' = "TeardownError"
    /\ UNCHANGED <<ok, data, local_timestamp, sample, next_in_seconds, saved,
                   uploaded>>
    /\ UNCHANGED <<lock, need_to_stop, camFps, loopVars, slotVars>>

MainNext ==
    \/ CamEnter
    \/ StartLoop
    \/ Schedule
    \/ Wait
    \/ SnapAcquire
    \/ SnapRetrieve
    \/ SnapReadTimestamp
    \/ SnapRelease
    \/ SnapReturn
    \/ Save
    \/ Upload
    \/ ExitStop
    \/ ExitJoin
    \/ CamExit

Next == LoopNext \/ MainNext

Spec == Init /\ [][Next]_vars

\* Both threads are scheduled fairly by the operating system.
FairSpec == Spec /\ WF_vars(LoopNext) /\ WF_vars(MainNext)

\* Both threads are scheduled fairly, and a caller blocked in lock.acquire()
\* gets the lock when it is free again and again: the loop leaves it free
\* for the whole of each time.sleep(sleep).
LockFairSpec ==
    Spec /\ WF_vars(LoopNext) /\ WF_vars(MainNext) /\ SF_vars(SnapAcquire)

\* Only the drain loop is guaranteed to run; the caller may pause anywhere.
LoopFairSpec == Spec /\ WF_vars(LoopNext)

TypeOK ==
    /\ mainPc \in {"cam_enter", "start_loop", "schedule", "wait", "snap_acquire",
                   "retrieve", "read_timestamp", "snap_release", "snap_return",
                   "save", "upload", "exit_stop", "join", "cam_exit", "done"}
    /\ loopPc \in {"idle", "fps", "check", "acquire", "grab", "stamp",
                   "release", "sleep", "done"}
    /\ lock \in {"free", "loop", "main"}
    /\ need_to_stop \in BOOLEAN
    /\ has_timestamp \in BOOLEAN
    /\ timestamp \in 0..MaxGrabs
    /\ frame \in 0..MaxGrabs
    /\ grabs \in 0..MaxGrabs
    /\ camState \in {"closed", "open", "released"}
    /\ camFps \in FpsValues
    /\ grabs_at_stop \in 0..MaxGrabs

----
\* Critical sections: lines 44-46 of _run and lines 51-53 of snapshot.
LoopInCS == loopPc \in {"grab", "stamp", "release"}
MainInCS == mainPc \in {"retrieve", "read_timestamp", "snap_release"}

\* C1: the drain loop's critical section (grab + write of the timestamp) and
\* snapshot()'s critical section (retrieve + read of the timestamp) are never
\* occupied at the same time; whenever snapshot() is inside its critical
\* section the slot is whole (no frame grabbed and no timestamp, or the
\* timestamp of the frame in the buffer), and a returned sample pairs a frame
\* with its own timestamp.
MutualExclusion ==
    /\ ~(LoopInCS /\ MainInCS)
    /\ MainInCS => IF has_timestamp THEN timestamp = frame ELSE frame = 0
    /\ sample # <<>> => sample[1] = sample[2]

\* C1 witness: snapshot() is inside its critical section on a grabbed frame
\* while the drain loop waits for the lock.
MutexContended ==
    /\ MainInCS
    /\ loopPc = "acquire"
    /\ grabs >= 1

\* C2: a snapshot() inside its critical section after the k-th grab has
\* completed reads the timestamp of the k-th grab and, when retrieval
\* succeeds, the frame of the k-th grab, never those of an earlier grab.
NoStaleReads ==
    /\ (mainPc = "read_timestamp" /\ ok) => data = grabs
    /\ mainPc = "snap_release" =>
          /\ grabs >= 1
          /\ local_timestamp = grabs
          /\ ok => data = grabs

\* C2 witness: an earlier snapshot returned grab 1, and a later snapshot has
\* read grab 2 in its critical section.
LatestGrabRead ==
    /\ sample = <<1, 1>>
    /\ mainPc = "snap_release"
    /\ ok
    /\ local_timestamp = 2
    /\ data = 2

\* C3: once __exit__ is invoked, the background loop eventually exits, join()
\* returns and __exit__ completes.
StopTerminates ==
    (mainPc = "exit_stop") ~> (mainPc = "done" /\ loopPc = "done")

\* C4: the source is released only after the loop thread has terminated, and
\* an error of the source's teardown is raised only after the join.
JoinBeforeRelease ==
    /\ camState = "released" => loopPc = "done"
    /\ exc = "TeardownError" => loopPc = "done"

\* C4 witness: the source was released, with a teardown error, after a loop
\* that grabbed frames.
ReleasedAfterLoop ==
    /\ camState = "released"
    /\ exc = "TeardownError"
    /\ grabs >= 1

\* Positions of the caller inside snapshot(), and those after retrieve().
SnapshotPcs == {"snap_acquire", "retrieve", "read_timestamp", "snap_release",
                "snap_return"}
AfterRetrievePcs == {"read_timestamp", "snap_release", "snap_return"}

\* C5: if retrieve() reported failure, snapshot() ends by raising a
\* RuntimeError and returns no sample; a sample is returned only when
\* retrieve() reported success.
RetrieveFailureRaisesRuntimeError ==
    [][( /\ (mainPc \in AfterRetrievePcs /\ ~ok /\ mainPc' \notin SnapshotPcs)
            => (exc' = "RuntimeError" /\ sample' = sample)
         /\ sample' # sample => ok )]_vars

\* C6: two successful snapshot() calls with no grab between their critical
\* sections read the same timestamp, and no statement of snapshot() changes
\* the slot or the stop flag.
SnapshotRepeatable ==
    /\ [](( /\ mainPc = "snap_release"
            /\ ok
            /\ sample # <<>>
            /\ ~grab_since_snapshot ) => local_timestamp = sample[2])
    /\ [][(mainPc \in SnapshotPcs /\ mainPc' # mainPc)
            => UNCHANGED <<has_timestamp, timestamp, frame, need_to_stop>>]_vars

\* C6 witness: a second successful snapshot is in its critical section and no
\* grab happened since the first one released the lock.
SecondSnapshotNoGrab ==
    /\ mainPc = "snap_release"
    /\ ok
    /\ sample # <<>>
    /\ ~grab_since_snapshot

\* Exceptions raised by snapshot().
SnapshotErrors == {"RuntimeError", "AttributeError"}

\* C7: once snapshot() has raised in drain_buffer, no further snapshot, save
\* or upload is performed, and the MyCamera context is exited (loop stopped
\* and joined, source released) with an error leaving drain_buffer.
RetrievalFailureFatal ==
    /\ [][(exc \in SnapshotErrors) =>
            ( /\ UNCHANGED <<sample, saved, uploaded>>
              /\ mainPc' \in {"exit_stop", "join", "cam_exit", "done"} )]_vars
    /\ (exc \in SnapshotErrors) ~>
            ( /\ mainPc = "done"
              /\ loopPc = "done"
              /\ camState = "released"
              /\ exc # "none" )

\* C8: the drain loop's progress does not depend on the consumer: while the
\* loop runs and the caller does not hold the lock, another grab follows
\* unless the loop is told to stop; each grab overwrites the one slot.
NoBackpressure ==
    /\ \A k \in 0..(MaxGrabs - 1) :
          (loopPc \notin {"idle", "done"} /\ grabs = k)
             ~> (grabs > k \/ need_to_stop \/ lock = "main")
    /\ [][grabs' # grabs => (grabs' = grabs + 1 /\ frame' = grabs')]_vars
    /\ [](frame = grabs /\ timestamp \in 0..grabs)

\* C8 witness: two grabs have been made and snapshot() was never called.
GrabsWithoutConsumer ==
    /\ grabs >= 2
    /\ has_timestamp
    /\ timestamp = grabs
    /\ mainPc \in {"schedule", "wait"}
    /\ sample = <<>>

\* C9: a snapshot() whose critical section runs before the first grab reads
\* an unset timestamp slot and returns no sample: it leaves by an
\* AttributeError; every returned sample carries the timestamp of a grab.
StartupSnapshotNoSample ==
    /\ [][(mainPc = "read_timestamp" /\ ~has_timestamp /\ mainPc' # mainPc)
            => ( /\ mainPc' = "exit_stop"
                 /\ exc' = "AttributeError"
                 /\ sample' = sample )]_vars
    /\ [](mainPc \in {"snap_release", "snap_return"} => has_timestamp)
    /\ [](sample # <<>> => sample[2] >= 1)

\* C9 witness: snapshot() ran its critical section before the first grab.
SnapshotBeforeFirstGrab ==
    /\ exc = "AttributeError"
    /\ ~has_timestamp
    /\ grabs = 0
    /\ loopPc # "idle"

\* C10: with fps > 0 the interval is 1/(fps+1), strictly shorter than 1/fps
\* (1/31 for fps = 30); otherwise it is 0.01; it is computed once and every
\* time.sleep of the loop uses it.
SleepIntervalRule ==
    /\ [](loopPc \notin {"idle", "fps"} =>
            /\ Len(sleep) = 2
            /\ sleep[2] > 0
            /\ camFps[1] > 0 =>
                  /\ sleep[1] * (camFps[1] + camFps[2]) = sleep[2] * camFps[2]
                  /\ sleep[1] * camFps[1] < sleep[2] * camFps[2]
            /\ camFps[1] <= 0 => sleep[1] * 100 = sleep[2]
            /\ camFps = <<30, 1>> => sleep = <<1, 31>>)
    /\ [](lastSleep # <<>> => lastSleep = sleep)
    /\ [][sleep # <<>> => sleep' = sleep]_vars

\* C10 witness: the loop has slept 1/31 s in a second iteration at fps = 30.
SleptAtThirtyFps ==
    /\ camFps = <<30, 1>>
    /\ lastSleep = <<1, 31>>
    /\ grabs >= 2

\* C11: the stop flag is checked once per iteration: after __exit__ has set
\* need_to_stop the loop makes at most one further grab (that of the
\* iteration whose check preceded the set), a check that sees the flag leaves
\* the loop, and every grab is preceded by its own check of the flag.
BoundedStopLatency ==
    /\ [](need_to_stop => grabs <= grabs_at_stop + 1)
    /\ []((need_to_stop /\ grabs = grabs_at_stop + 1)
             => loopPc \in {"stamp", "release", "sleep", "check", "done"})
    /\ [][(need_to_stop /\ loopPc = "check" /\ loopPc' # loopPc)
             => loopPc' = "done"]_vars
    /\ [][(loopPc' = "acquire" /\ loopPc # "acquire")
             => (loopPc = "check" /\ ~need_to_stop)]_vars
    /\ [][(loopPc = "sleep" /\ loopPc' # loopPc) => loopPc' = "check"]_vars

\* C11 witness: the loop has exited after one grab that followed the setting
\* of the flag.
OneGrabAfterStop ==
    /\ need_to_stop
    /\ grabs = grabs_at_stop + 1
    /\ grabs_at_stop >= 1
    /\ loopPc = "done"

\* C12: in drained mode an iteration performs snapshot, then save, then
\* upload: a save handles the sample a successful snapshot() just returned,
\* an upload publishes the file just saved from it, nothing is uploaded once
\* snapshot() has failed, and the wait before the capture is made exactly
\* when the next fire time is in the future.
CaptureSaveUploadOrder ==
    /\ [](mainPc \in {"save", "upload"}
             => (ok /\ sample = <<data, local_timestamp>>))
    /\ [](mainPc = "upload" => saved = sample)
    /\ []((mainPc \in {"schedule", "wait"} /\ uploaded # <<>>)
             => (uploaded = saved /\ saved = sample))
    /\ [][(mainPc' = "save" /\ mainPc # "save") => mainPc = "snap_return"]_vars
    /\ [][(mainPc' = "upload" /\ mainPc # "upload")
             => (mainPc = "save" /\ saved' = sample)]_vars
    /\ [][(mainPc = "upload" /\ mainPc' = "schedule") => uploaded' = sample]_vars
    /\ [][uploaded' # uploaded => (mainPc = "upload" /\ exc = "none")]_vars
    /\ [][(mainPc = "schedule" /\ mainPc' # mainPc)
             => (mainPc' = IF next_in_seconds' > 0 THEN "wait"
                                                    ELSE "snap_acquire")]_vars
    /\ [](mainPc = "wait" => next_in_seconds > 0)
    /\ [][(mainPc' = "snap_acquire" /\ mainPc # "snap_acquire")
             => \/ mainPc = "wait"
                \/ (mainPc = "schedule" /\ next_in_seconds' <= 0)]_vars

\* C12 witness: a second iteration has uploaded the sample of grab 2 and the
\* third capture starts without waiting.
SecondUploadDone ==
    /\ uploaded = <<2, 2>>
    /\ saved = <<2, 2>>
    /\ mainPc = "snap_acquire"
    /\ next_in_seconds <= 0

\* C13: whenever a thread has left its critical section (the loop iteration,
\* or snapshot() by returning or by raising) the lock is free again: the lock
\* is held only by a thread that is inside its critical section.
LockReleasedOnEveryPath ==
    /\ lock = "loop" => LoopInCS
    /\ lock = "main" => MainInCS

\* C14: the loop never holds the lock while it sleeps or between iterations,
\* and a snapshot() waiting for the lock acquires it and ends.
ReaderNotStarved ==
    /\ [](loopPc \in {"sleep", "check", "acquire", "done"} => lock # "loop")
    /\ (mainPc = "snap_acquire") ~> (mainPc \in AfterRetrievePcs)
    /\ (mainPc = "snap_acquire") ~> (mainPc \notin SnapshotPcs)

\* C14 witness: snapshot() waits for the lock while the loop, in a later
\* iteration, is inside its critical section.
ReaderWaitsForLoop ==
    /\ mainPc = "snap_acquire"
    /\ lock = "loop"
    /\ grabs >= 1
    /\ lastSleep # <<>>

\* C15: every grab() of the loop and every retrieve() of snapshot() is made
\* on the opened, not yet released source: the thread starts after
\* cam.__enter__ and the source is released after the join.
SourceLifetime ==
    /\ [](loopPc \notin {"idle", "done"} => camState = "open")
    /\ [](mainPc \in SnapshotPcs => camState = "open")
    /\ [][grabs' # grabs => (camState = "open" /\ camState' = "open")]_vars
    /\ [][(mainPc = "retrieve" /\ mainPc' # mainPc)
             => (camState = "open" /\ camState' = "open")]_vars
    /\ [](camState = "closed" => (loopPc = "idle" /\ grabs = 0))
    /\ [](camState = "released" => loopPc = "done")

\* C15 witness: the source was released after the loop grabbed a frame and
\* snapshot() retrieved it.
GrabbedRetrievedReleased ==
    /\ camState = "released"
    /\ grabs >= 1
    /\ sample # <<>>

====
